---- MODULE Spec2Model ----
(***************************************************************************)
(* The address-bar widget UrlBar of qutebrowser/mainwindow/urlbar/urlbar.py *)
(* as a state machine: the display state, the interaction trace            *)
(* (trace.txt), the page archive (sauvegarde_pages/) and the ranking scan. *)
(*                                                                         *)
(* Python values.  An optional value is a sequence of length at most one:  *)
(* None is <<>> and a value x is <<x>>.  A str is a sequence of tokens: a  *)
(* token is a character, or a literal of the source that is never split    *)
(* ("http://", "Invalid URL!", ...).  The elapsed-time column of a trace   *)
(* line is left out; a trace line is the tuple of its other columns.       *)
(***************************************************************************)
EXTENDS Integers, Sequences, FiniteSets, TLC

None == <<>>
Some(x) == <<x>>
Val(o) == o[1]

(***************************************************************************)
(* Bounds of the model.                                                    *)
(***************************************************************************)
MaxId == 3          \* capture ids 0..MaxId can be probed
MaxTrace == 5       \* lines of trace.txt after which no handler runs
MaxWidgetTrace == 4 \* the same, in the model of all handlers together
MaxPending == 1     \* dump_async callbacks in flight
MaxHeadings == 3    \* result headings of a scanned document
MaxDay == 1         \* midnights the process lives through
MaxEntryLen == 3    \* tokens of a text typed in the address field

Ids == 0..MaxId

\* TODAY is computed once, when the module is imported (day 0 of the model).
TODAY == 0

(***************************************************************************)
(* str operations.                                                         *)
(***************************************************************************)
\* Python's  s in t  for two str: s is a contiguous part of t.
IsSubstring(s, t) ==
    \E i \in 0..(Len(t) - Len(s)) : SubSeq(t, i + 1, i + Len(s)) = s

\* Python's  x in y  where x, y are optional str: it raises TypeError when the
\* left operand is None (y a str) or when y is None (not iterable).
PyIn(x, y) ==
    IF x = None \/ y = None THEN "TypeError"
    ELSE IF IsSubstring(Val(x), Val(y)) THEN "True" ELSE "False"

(***************************************************************************)
(* A document, as BeautifulSoup sees it in getGoogleRanking:               *)
(*   headings : the <h3 class="LC20lb"> elements in document order, each   *)
(*       [div   : whether find_parent('div') finds a block,                *)
(*        hrefs : get('href') of each <a> of that block, in order];        *)
(*   foot     : None, or the <td> cells of <div id="foot">, each           *)
(*       [csb : the cell holds the page-number marker span,                *)
(*        a   : the cell holds a hyperlink,  text : td.text].              *)
(***************************************************************************)
Heading(div, hrefs) == [div |-> div, hrefs |-> hrefs]
Cell(csb, a, text) == [csb |-> csb, a |-> a, text |-> text]
Doc(headings, foot) == [headings |-> headings, foot |-> foot]

\* The loop testing the last hyperlink of the block instead of links[0].
RECURSIVE ScanHeadings_last_link(_, _, _, _)
ScanHeadings_last_link(hs, prev, rank, found) ==
    IF hs = <<>> THEN [raised |-> "", rank |-> rank, found |-> found]
    ELSE LET t == Head(hs) IN
         IF ~t.div THEN ScanHeadings_last_link(Tail(hs), prev, rank, found)
         ELSE IF t.hrefs = <<>>
              THEN [raised |-> "IndexError", rank |-> rank, found |-> found]
         ELSE IF PyIn(prev, t.hrefs[Len(t.hrefs)]) = "TypeError"
              THEN [raised |-> "TypeError", rank |-> rank, found |-> found]
         ELSE ScanHeadings_last_link(Tail(hs), prev, rank + 1,
                  IF PyIn(prev, t.hrefs[Len(t.hrefs)]) = "True" THEN rank ELSE found)

\* The loop with  rank += 1  outside  if parentdiv.
RECURSIVE ScanHeadings_counts_all(_, _, _, _)
ScanHeadings_counts_all(hs, prev, rank, found) ==
    IF hs = <<>> THEN [raised |-> "", rank |-> rank, found |-> found]
    ELSE LET t == Head(hs) IN
         IF ~t.div THEN ScanHeadings_counts_all(Tail(hs), prev, rank + 1, found)
         ELSE IF t.hrefs = <<>>
              THEN [raised |-> "IndexError", rank |-> rank, found |-> found]
         ELSE IF PyIn(prev, t.hrefs[1]) = "TypeError"
              THEN [raised |-> "TypeError", rank |-> rank, found |-> found]
         ELSE ScanHeadings_counts_all(Tail(hs), prev, rank + 1,
                  IF PyIn(prev, t.hrefs[1]) = "True" THEN rank ELSE found)

\* The loop over soup.findAll("h3", ...): the state after the last heading, or
\* the exception that ended it.
RECURSIVE ScanHeadings(_, _, _, _)
ScanHeadings(hs, prev, rank, found) ==
    IF hs = <<>> THEN [raised |-> "", rank |-> rank, found |-> found]
    ELSE LET t == Head(hs) IN
         IF ~t.div THEN ScanHeadings(Tail(hs), prev, rank, found)
         ELSE IF t.hrefs = <<>>
              THEN [raised |-> "IndexError", rank |-> rank, found |-> found]
         ELSE IF PyIn(prev, t.hrefs[1]) = "TypeError"
              THEN [raised |-> "TypeError", rank |-> rank, found |-> found]
         ELSE ScanHeadings(Tail(hs), prev, rank + 1,
                           IF PyIn(prev, t.hrefs[1]) = "True" THEN rank ELSE found)

\* The loop over footer.find_all('td'): the page label.
RECURSIVE PageLabel(_)
PageLabel(tds) ==
    IF tds = <<>> THEN <<>>
    ELSE LET td == Head(tds) IN
         (IF td.csb /\ ~td.a /\ td.text # <<>> THEN td.text ELSE <<>>)
             \o PageLabel(Tail(tds))

\* getGoogleRanking(html) with self.previous_url = prev: what the call does.
\*   "skip"  : html is None, nothing is logged;
\*   "raise" : an exception leaves the method before anything is logged;
\*   "rank"  : one RANK line is logged.
getGoogleRanking(html, prev) ==
    IF html = None THEN [kind |-> "skip"]
    ELSE LET s == ScanHeadings(Val(html).headings, prev, 1, -1) IN
         IF s.raised # "" THEN [kind |-> "raise", error |-> s.raised]
         ELSE [kind |-> "rank",
               line |-> <<"RANK", s.found, s.rank - 1,
                          IF Val(html).foot # None
                          THEN PageLabel(Val(Val(html).foot))
                          ELSE <<"?">> >>]

(***************************************************************************)
(* Host values.  A QUrl is [valid, display]: isValid() and the string      *)
(* urlutils.safe_display_string gives for it.  A tab is [url]: what        *)
(* tab.url(requested=True) returns.                                        *)
(***************************************************************************)
QUrlRec(valid, display) == [valid |-> valid, display |-> display]

\* QUrl(link) of a str: a link with an unmatched "[" does not parse.
QUrl(link) == QUrlRec(~IsSubstring(<<"[">>, link), link)

safe_display_string(qurl) == qurl.display

\* usertypes.LoadStatus
LoadStatus == {"none", "success", "success_https", "error", "warn", "loading"}

\* UrlType
UrlType == {"success", "success_https", "error", "warn", "hover", "normal"}

VARIABLES
    START_TIME,         \* 0 until the logger is started
    ignore_first_load,
    last_html,          \* None, or the html of the last completed dump_html
    previous_url,       \* None, or the text last logged as URL_CHANGED
    cur_tab,            \* None, or the tab given to on_tab_changed
    _commandrunner,     \* whether _connect_command_runner has run
    _urltype,           \* self._urltype (None until the first _update_url)
    _hover_url,         \* self._hover_url
    _normal_url,        \* self._normal_url
    _normal_url_type,   \* self._normal_url_type
    url_text,           \* self.url.text(), the address field
    url_modified,       \* self.url.isModified(): the user edited the text
    searchedit,         \* self.searchedit.text()
    searchbox_visible,
    trace,              \* the lines of trace.txt written by this widget
    files,              \* sauvegarde_pages/<TODAY>-<id>.html: id -> None or content
    pending,            \* dump_async callbacks requested and not yet run
    loaded,             \* None, or the url last given to window.load_url
    last_command,       \* None, or the text last given to _commandrunner.run
    clock,              \* the calendar day, counted from the import of the module
    preexisting,        \* history: the ids of the capture files found at start
    removed,            \* history: a capture file was removed by someone else
    started,            \* history: the on_load_started calls so far
    dumped,             \* history: the dump_html calls so far
    requested           \* history: the url of the page of each pending dump

vars == <<START_TIME, ignore_first_load, last_html, previous_url, cur_tab,
          _commandrunner, _urltype, _hover_url, _normal_url, _normal_url_type,
          url_text, url_modified, searchedit, searchbox_visible, trace, files,
          pending, loaded, last_command, clock, preexisting, removed, started,
          dumped, requested>>

\* What another program left in a capture file.
ExternalDoc == Doc(<<>>, Some(<<Cell(FALSE, FALSE, <<"x">>)>>))

\* add_log(logtext) on the trace tr, with self.START_TIME = start.
add_log_at(start, tr, logtext) ==
    IF start = 0 THEN tr ELSE Append(tr, logtext)

\* add_log opening trace.txt with mode "w" instead of "a".
add_log_rewrites(tr, logtext) ==
    <<logtext>>

\* add_log(logtext) on the trace tr.
add_log(tr, logtext) ==
    add_log_at(START_TIME, tr, logtext)

\* UrlBar.__init__: the state of a new widget.  The output directory holds
\* whatever earlier runs and other programs left there.
Init ==
    /\ START_TIME = 1
    /\ ignore_first_load = TRUE
    /\ last_html = None
    /\ previous_url = None
    /\ cur_tab = None
    /\ _commandrunner = FALSE
    /\ _urltype = None
    /\ _hover_url = None
    /\ _normal_url = None
    /\ _normal_url_type = "normal"
    /\ url_text = <<>>
    /\ url_modified = FALSE
    /\ searchedit = <<>>
    /\ searchbox_visible = FALSE
    /\ trace = <<<<"START">>>>
    /\ files \in [Ids -> {None, Some(ExternalDoc)}]
    /\ pending = 0
    /\ loaded = None
    /\ last_command = None
    /\ clock = 0
    /\ preexisting = {i \in Ids : files[i] # None}
    /\ removed = FALSE
    /\ started = 0
    /\ dumped = 0
    /\ requested = <<>>

(***************************************************************************)
(* The handlers.                                                           *)
(***************************************************************************)
\* _connect_command_runner, run once by QTimer.singleShot(0, ...).
_connect_command_runner ==
    /\ ~_commandrunner
    /\ _commandrunner' = TRUE
    /\ UNCHANGED <<START_TIME, ignore_first_load, last_html, previous_url,
                   cur_tab, _urltype, _hover_url, _normal_url,
                   _normal_url_type, url_text, url_modified, searchedit,
                   searchbox_visible, trace, files, pending, loaded,
                   last_command, clock, preexisting, removed, started, dumped,
                   requested>>

\* self._commandrunner.run(text): AttributeError before the runner is connected.
run_command(text) ==
    last_command' = IF _commandrunner THEN Some(text) ELSE last_command

\* on_click_back / on_click_forward / on_click_reload, with the history of the
\* tab allowing the move.
on_click(button) ==
    /\ button = <<"reload">> \/ cur_tab # None
    /\ run_command(button)
    /\ UNCHANGED <<START_TIME, ignore_first_load, last_html, previous_url,
                   cur_tab, _commandrunner, _urltype, _hover_url, _normal_url,
                   _normal_url_type, url_text, url_modified, searchedit,
                   searchbox_visible, trace, files, pending, loaded, clock,
                   preexisting, removed, started, dumped, requested>>

\* The user types in the address field.
edit_address(text) ==
    /\ url_text' = text
    /\ url_modified' = TRUE
    /\ UNCHANGED <<START_TIME, ignore_first_load, last_html, previous_url,
                   cur_tab, _commandrunner, _urltype, _hover_url, _normal_url,
                   _normal_url_type, searchedit, searchbox_visible, trace,
                   files, pending, loaded, last_command, clock, preexisting,
                   removed, started, dumped, requested>>

\* "http://www.google.com/search?q=", cut where its "http://" and its dots are.
SearchPrefix ==
    <<"http://", "www", ".", "google", ".", "com/search?q=">>

\* on_press_enter prefixing every text with a dot, whatever it contains.
entered_url_always_prefixes(url) ==
    IF IsSubstring(<<".">>, url)
    THEN <<"http://">> \o url
    ELSE SearchPrefix \o url

\* The url on_press_enter gives to window.load_url for the text url.
entered_url(url) ==
    IF /\ IsSubstring(<<".">>, url)
       /\ ~IsSubstring(<<"http://">>, url)
       /\ ~IsSubstring(<<"https://">>, url)
    THEN <<"http://">> \o url
    ELSE IF ~IsSubstring(<<".">>, url)
    THEN SearchPrefix \o url
    ELSE url

on_press_enter ==
    /\ trace' = add_log(trace, <<"SAISIE_BARREADRESSE", url_text>>)
    /\ loaded' = Some(entered_url(url_text))
    /\ UNCHANGED <<START_TIME, ignore_first_load, last_html, previous_url,
                   cur_tab, _commandrunner, _urltype, _hover_url, _normal_url,
                   _normal_url_type, url_text, url_modified, searchedit,
                   searchbox_visible, files, pending, last_command, clock,
                   preexisting, removed, started, dumped, requested>>

\* _update_url never storing the text it logs.
_update_url_forgets(nurl, ntype) ==
    LET text == IF nurl # None THEN Val(nurl) ELSE <<>> IN
    /\ url_text' = text
    /\ url_modified' = FALSE
    /\ _urltype' = Some(IF nurl # None THEN ntype ELSE "normal")
    /\ IF Some(text) # previous_url
       THEN /\ UNCHANGED previous_url
            /\ trace' = add_log(trace, <<"URL_CHANGED", text>>)
       ELSE UNCHANGED <<previous_url, trace>>

\* _update_url logging URL_CHANGED at every call.
_update_url_always_logs(nurl, ntype) ==
    LET text == IF nurl # None THEN Val(nurl) ELSE <<>> IN
    /\ url_text' = text
    /\ url_modified' = FALSE
    /\ _urltype' = Some(IF nurl # None THEN ntype ELSE "normal")
    /\ previous_url' = Some(text)
    /\ trace' = add_log(trace, <<"URL_CHANGED", text>>)

\* _update_url, with self._normal_url = nurl and self._normal_url_type = ntype.
_update_url(nurl, ntype) ==
    LET text == IF nurl # None THEN Val(nurl) ELSE <<>> IN
    /\ url_text' = text
    /\ url_modified' = FALSE
    /\ _urltype' = Some(IF nurl # None THEN ntype ELSE "normal")
    /\ IF Some(text) # previous_url
       THEN /\ previous_url' = Some(text)
            /\ trace' = add_log(trace, <<"URL_CHANGED", text>>)
       ELSE UNCHANGED <<previous_url, trace>>

\* The value on_set_url stores in self._normal_url for url (None or a QUrl).
normal_url_of(url) ==
    IF url = None THEN None
    ELSE IF ~Val(url).valid THEN Some(<<"Invalid URL!">>)
    ELSE Some(safe_display_string(Val(url)))

on_set_url(url) ==
    /\ _normal_url' = normal_url_of(url)
    /\ _normal_url_type' = "normal"
    /\ _update_url(normal_url_of(url), "normal")
    /\ UNCHANGED <<START_TIME, ignore_first_load, last_html, cur_tab,
                   _commandrunner, _hover_url, searchedit, searchbox_visible,
                   files, pending, loaded, last_command, clock, preexisting,
                   removed, started, dumped, requested>>

on_tab_changed(tab) ==
    /\ cur_tab' = Some(tab)
    /\ _normal_url' = normal_url_of(Some(tab.url))
    /\ _normal_url_type' = "normal"
    /\ _update_url(normal_url_of(Some(tab.url)), "normal")
    /\ UNCHANGED <<START_TIME, ignore_first_load, last_html, _commandrunner,
                   _hover_url, searchedit, searchbox_visible, files, pending,
                   loaded, last_command, clock, preexisting, removed, started,
                   dumped, requested>>

\* on_load_status_changed taking the name of every status as the type.
url_type_of_unfiltered(status) == status

\* The _normal_url_type on_load_status_changed sets for status.
url_type_of(status) ==
    IF status \in {"success", "success_https", "error", "warn"}
    THEN status ELSE "normal"

on_load_status_changed(status) ==
    /\ _normal_url_type' = url_type_of(status)
    /\ _update_url(_normal_url, url_type_of(status))
    /\ UNCHANGED <<START_TIME, ignore_first_load, last_html, cur_tab,
                   _commandrunner, _hover_url, _normal_url, searchedit,
                   searchbox_visible, files, pending, loaded, last_command,
                   clock, preexisting, removed, started, dumped, requested>>

\* on_load_started without the ignore_first_load test.
on_load_started_every ==
    /\ started' = started + 1
    /\ ignore_first_load' = FALSE
    /\ trace' = add_log(trace, <<"LOAD STARTED">>)
    /\ UNCHANGED <<START_TIME, last_html, previous_url, cur_tab,
                   _commandrunner, _urltype, _hover_url, _normal_url,
                   _normal_url_type, url_text, url_modified, searchedit,
                   searchbox_visible, files, pending, loaded, last_command,
                   clock, preexisting, removed, dumped, requested>>

on_load_started ==
    /\ started' = started + 1
    /\ IF ignore_first_load
       THEN ignore_first_load' = FALSE /\ UNCHANGED trace
       ELSE trace' = add_log(trace, <<"LOAD STARTED">>)
              /\ UNCHANGED ignore_first_load
    /\ UNCHANGED <<START_TIME, last_html, previous_url, cur_tab,
                   _commandrunner, _urltype, _hover_url, _normal_url,
                   _normal_url_type, url_text, url_modified, searchedit,
                   searchbox_visible, files, pending, loaded, last_command,
                   clock, preexisting, removed, dumped, requested>>

\* The url of the page in the current tab: the last one on_set_url was given.
page_url == IF _normal_url # None THEN Val(_normal_url) ELSE <<>>

\* on_load_finished: self.cur_tab.dump_async(self.dump_html).  With no tab yet
\* the call raises AttributeError and nothing is requested.
on_load_finished ==
    /\ cur_tab # None
    /\ pending' = pending + 1
    /\ requested' = Append(requested, page_url)
    /\ UNCHANGED <<START_TIME, ignore_first_load, last_html, previous_url,
                   cur_tab, _commandrunner, _urltype, _hover_url, _normal_url,
                   _normal_url_type, url_text, url_modified, searchedit,
                   searchbox_visible, trace, files, loaded, last_command,
                   clock, preexisting, removed, started, dumped>>

\* os.path.exists of the capture file id of TODAY.
exists(fs, id) == id \in DOMAIN fs /\ fs[id] # None

\* The probing loop of dump_html, from id.
RECURSIVE probe(_, _)
probe(fs, id) == IF exists(fs, id) THEN probe(fs, id + 1) ELSE id

\* dump_html without the probing loop: id stays 0.
capture_id_unprobed(fs) == 0

\* dump_html numbering after the last capture instead of probing from 0.
capture_id_after_last(fs) ==
    IF \A i \in DOMAIN fs : fs[i] = None THEN 0
    ELSE 1 + CHOOSE i \in DOMAIN fs :
                 fs[i] # None /\ \A j \in DOMAIN fs : fs[j] # None => j <= i

\* dump_html probing downward from the last id.
capture_id_downward(fs) ==
    IF \A i \in DOMAIN fs : fs[i] # None THEN MaxId + 1
    ELSE CHOOSE i \in DOMAIN fs :
             fs[i] = None /\ \A j \in DOMAIN fs : fs[j] = None => j <= i

\* The capture id dump_html chooses in the directory fs.
capture_id(fs) == probe(fs, 0)

\* The trace and self.last_html after the part of dump_html that follows the
\* write of capture id: the LOAD_FINISHED line, the scan of self.last_html,
\* and, unless the scan raised, the new self.last_html.
after_capture(id, html) ==
    LET t1 == add_log(trace, <<"LOAD_FINISHED", TODAY, id, url_text>>)
        r  == getGoogleRanking(last_html, previous_url)
    IN  IF r.kind = "raise" THEN [trace |-> t1, last_html |-> last_html]
        ELSE IF r.kind = "rank"
        THEN [trace |-> add_log(t1, r.line), last_html |-> Some(html)]
        ELSE [trace |-> t1, last_html |-> Some(html)]

\* dump_html(html), the callback of dump_async.
dump_html(html) ==
    /\ pending > 0
    /\ capture_id(files) \in Ids
    /\ pending' = pending - 1
    /\ requested' = Tail(requested)
    /\ dumped' = dumped + 1
    /\ files' = [files EXCEPT ![capture_id(files)] = Some(html)]
    /\ trace' = after_capture(capture_id(files), html).trace
    /\ last_html' = after_capture(capture_id(files), html).last_html
    /\ UNCHANGED <<START_TIME, ignore_first_load, previous_url, cur_tab,
                   _commandrunner, _urltype, _hover_url, _normal_url,
                   _normal_url_type, url_text, url_modified, searchedit,
                   searchbox_visible, loaded, last_command, clock,
                   preexisting, removed, started>>

on_request_search ==
    /\ trace' = add_log(trace, <<"AFFICHE_BARRERECHERCHE">>)
    /\ searchbox_visible' = TRUE
    /\ UNCHANGED <<START_TIME, ignore_first_load, last_html, previous_url,
                   cur_tab, _commandrunner, _urltype, _hover_url, _normal_url,
                   _normal_url_type, url_text, url_modified, searchedit,
                   files, pending, loaded, last_command, clock, preexisting,
                   removed, started, dumped, requested>>

\* The user changes the text of the search box to txt: textChanged runs
\* on_search.
on_search(txt) ==
    /\ searchbox_visible
    /\ txt # searchedit
    /\ searchedit' = txt
    /\ IF txt # <<>>
       THEN /\ trace' = add_log(trace, <<"LANCERECHERCHE_BARRERECHERCHE", txt>>)
            /\ run_command(<<"search ">> \o txt)
       ELSE UNCHANGED <<trace, last_command>>
    /\ UNCHANGED <<START_TIME, ignore_first_load, last_html, previous_url,
                   cur_tab, _commandrunner, _urltype, _hover_url, _normal_url,
                   _normal_url_type, url_text, url_modified,
                   searchbox_visible, files, pending, loaded, clock,
                   preexisting, removed, started, dumped, requested>>

\* on_search_next (tag ..._SUIVANT, command search-next) and
\* on_search_previous (tag ..._PRECEDENT, command search-prev).
on_search_step(tag, command) ==
    /\ searchbox_visible
    /\ searchedit # <<>>
    /\ trace' = add_log(trace, <<tag, searchedit>>)
    /\ run_command(<<command>>)
    /\ UNCHANGED <<START_TIME, ignore_first_load, last_html, previous_url,
                   cur_tab, _commandrunner, _urltype, _hover_url, _normal_url,
                   _normal_url_type, url_text, url_modified, searchedit,
                   searchbox_visible, files, pending, loaded, clock,
                   preexisting, removed, started, dumped, requested>>

\* The value set_hover_url stores in self._hover_url for link.
hover_url_of(link) ==
    IF link # <<>>
    THEN IF QUrl(link).valid
         THEN Some(safe_display_string(QUrl(link)))
         ELSE Some(<<"(invalid URL!) ">> \o link)
    ELSE None

set_hover_url(link) ==
    /\ trace' = add_log(trace, <<"LINK_HOVERED", link>>)
    /\ _hover_url' = hover_url_of(link)
    /\ UNCHANGED <<START_TIME, ignore_first_load, last_html, previous_url,
                   cur_tab, _commandrunner, _urltype, _normal_url,
                   _normal_url_type, url_text, url_modified, searchedit,
                   searchbox_visible, files, pending, loaded, last_command,
                   clock, preexisting, removed, started, dumped, requested>>

(***************************************************************************)
(* The environment.                                                        *)
(***************************************************************************)
\* Midnight passes while the process runs.
midnight ==
    /\ clock < MaxDay
    /\ clock' = clock + 1
    /\ UNCHANGED <<START_TIME, ignore_first_load, last_html, previous_url,
                   cur_tab, _commandrunner, _urltype, _hover_url, _normal_url,
                   _normal_url_type, url_text, url_modified, searchedit,
                   searchbox_visible, trace, files, pending, loaded,
                   last_command, preexisting, removed, started, dumped,
                   requested>>

\* Someone removes a capture file from the output directory.
remove_capture(id) ==
    /\ files[id] # None
    /\ files' = [files EXCEPT ![id] = None]
    /\ removed' = TRUE
    /\ UNCHANGED <<START_TIME, ignore_first_load, last_html, previous_url,
                   cur_tab, _commandrunner, _urltype, _hover_url, _normal_url,
                   _normal_url_type, url_text, url_modified, searchedit,
                   searchbox_visible, trace, pending, loaded, last_command,
                   clock, preexisting, started, dumped, requested>>

(***************************************************************************)
(* Inputs.                                                                 *)
(***************************************************************************)
QUrls == {QUrlRec(TRUE, <<"a">>), QUrlRec(TRUE, <<"b">>), QUrlRec(FALSE, <<>>)}
Tabs == {[url |-> q] : q \in QUrls}
OptQUrls == {None} \cup {Some(q) : q \in QUrls}
Links == {<<>>, <<"b">>, <<"[">>}
Entries == {<<"b">>, <<"a", ".", "b">>}
Searches == {<<>>, <<"a">>}

\* A results page with one result, linking to "a", on page 1; a page that is
\* no results page; a results page whose only result block has no hyperlink.
ResultsPage ==
    Doc(<<Heading(TRUE, <<Some(<<"a">>)>>)>>, Some(<<Cell(TRUE, FALSE, <<"1">>)>>))
PlainPage == Doc(<<>>, None)
BrokenPage == Doc(<<Heading(TRUE, <<>>)>>, None)
Docs == {ResultsPage, PlainPage, BrokenPage}

\* A new widget whose output directory is empty.
InitEmpty == Init /\ preexisting = {}

\* The lines of trace.txt the model keeps: no handler runs once it is full.
Room == Len(trace) < MaxTrace

(***************************************************************************)
(* The page loads: load-started and load-finished events, the dump         *)
(* callbacks, and the address changes between them.                        *)
(***************************************************************************)
NextLoad ==
    \/ Room /\ \E tab \in Tabs : on_tab_changed(tab)
    \/ Room /\ on_set_url(None)
    \/ Room /\ on_load_started
    \/ Room /\ pending < MaxPending /\ on_load_finished
    \/ Room /\ \E html \in Docs : dump_html(html)
    \/ Room /\ edit_address(<<"b">>)

SpecLoad == InitEmpty /\ [][NextLoad]_vars

(***************************************************************************)
(* The archive: the dump callbacks on any output directory.                *)
(***************************************************************************)
NextArchive ==
    \/ Room /\ on_tab_changed([url |-> QUrlRec(TRUE, <<"a">>)])
    \/ Room /\ pending < MaxPending /\ on_load_finished
    \/ Room /\ \E html \in Docs : dump_html(html)
    \/ Room /\ \E id \in Ids : remove_capture(id)

SpecArchive == Init /\ [][NextArchive]_vars

(***************************************************************************)
(* The address display: the address changes, the load status, the hover    *)
(* and the user's edits.                                                   *)
(***************************************************************************)
NextUrl ==
    \/ Room /\ \E tab \in Tabs : on_tab_changed(tab)
    \/ Room /\ \E url \in OptQUrls : on_set_url(url)
    \/ Room /\ \E status \in LoadStatus : on_load_status_changed(status)
    \/ Room /\ \E link \in Links : set_hover_url(link)
    \/ Room /\ \E text \in Entries : edit_address(text)

SpecUrl == InitEmpty /\ [][NextUrl]_vars

(***************************************************************************)
(* The ranking scan: the first page loaded is any document of RankDocs,    *)
(* the address changes, and the next load completion scans it.             *)
(***************************************************************************)
HeadingKinds ==
    {Heading(FALSE, <<>>),
     Heading(TRUE, <<>>),
     Heading(TRUE, <<None>>),
     Heading(TRUE, <<Some(<<"a">>)>>),
     Heading(TRUE, <<Some(<<"b">>)>>),
     Heading(TRUE, <<Some(<<"b", "a">>), Some(<<"b">>)>>)}

Footers ==
    {None,
     Some(<<Cell(TRUE, TRUE, <<"1">>), Cell(TRUE, FALSE, <<"2">>),
            Cell(FALSE, FALSE, <<"x">>)>>)}

RankDocs ==
    {Doc(hs, foot) :
        hs \in UNION {[1..n -> HeadingKinds] : n \in 0..MaxHeadings},
        foot \in Footers}

RankUrls == {None, Some(QUrlRec(TRUE, <<"a">>))}

NextRank ==
    \/ Room /\ on_tab_changed([url |-> QUrlRec(TRUE, <<"a">>)])
    \/ Room /\ \E url \in RankUrls : on_set_url(url)
    \/ Room /\ pending < MaxPending /\ on_load_finished
    \/ Room /\ \E html \in (IF dumped = 0 THEN RankDocs ELSE Docs) : dump_html(html)

SpecRank == InitEmpty /\ [][NextRank]_vars

(***************************************************************************)
(* The address entry: the user types a text and confirms it, then enters   *)
(* again the url that was loaded and confirms that.                        *)
(***************************************************************************)
EntryTokens == {"a", ".", "http://", "https://"}

EntryTexts == UNION {[1..n -> EntryTokens] : n \in 0..MaxEntryLen}

NextEntry ==
    \/ Room /\ loaded = None /\ \E text \in EntryTexts : edit_address(text)
    \/ Room /\ loaded # None /\ edit_address(Val(loaded))
    \/ Room /\ on_press_enter

SpecEntry == InitEmpty /\ [][NextEntry]_vars

(***************************************************************************)
(* The days: the page loads of a process that lives through midnight.      *)
(***************************************************************************)
NextDay ==
    \/ Room /\ \E tab \in Tabs : on_tab_changed(tab)
    \/ Room /\ pending < MaxPending /\ on_load_finished
    \/ Room /\ \E html \in Docs : dump_html(html)
    \/ Room /\ midnight

SpecDay == InitEmpty /\ [][NextDay]_vars

(***************************************************************************)
(* The log: every handler of the widget, each on one input or two.         *)
(***************************************************************************)
NextLog ==
    \/ Room /\ _connect_command_runner
    \/ Room /\ on_click(<<"reload">>)
    \/ Room /\ edit_address(<<"b">>)
    \/ Room /\ on_press_enter
    \/ Room /\ on_set_url(None)
    \/ Room /\ on_tab_changed([url |-> QUrlRec(TRUE, <<"a">>)])
    \/ Room /\ \E status \in {"success", "loading"} :
                   on_load_status_changed(status)
    \/ Room /\ on_load_started
    \/ Room /\ pending < MaxPending /\ on_load_finished
    \/ Room /\ dump_html(ResultsPage)
    \/ Room /\ on_request_search
    \/ Room /\ on_search(<<"a">>)
    \/ Room /\ on_search_step("LANCERECHERCHE_BARRERECHERCHE_SUIVANT", "search-next")
    \/ Room /\ on_search_step("LANCERECHERCHE_BARRERECHERCHE_PRECEDENT", "search-prev")
    \/ Room /\ set_hover_url(<<"b">>)

SpecLog == InitEmpty /\ [][NextLog]_vars

(***************************************************************************)
(* The whole widget, on small inputs.                                      *)
(***************************************************************************)
\* The lines of trace.txt the whole-widget model keeps.
Busy == Len(trace) < MaxWidgetTrace

Next ==
    \/ Busy /\ _connect_command_runner
    \/ Busy /\ \E b \in {<<"back">>, <<"forward">>, <<"reload">>} : on_click(b)
    \/ Busy /\ \E text \in Entries : edit_address(text)
    \/ Busy /\ on_press_enter
    \/ Busy /\ \E url \in OptQUrls : on_set_url(url)
    \/ Busy /\ \E tab \in Tabs : on_tab_changed(tab)
    \/ Busy /\ \E status \in LoadStatus : on_load_status_changed(status)
    \/ Busy /\ on_load_started
    \/ Busy /\ pending < MaxPending /\ on_load_finished
    \/ Busy /\ \E html \in Docs : dump_html(html)
    \/ Busy /\ on_request_search
    \/ Busy /\ \E txt \in Searches : on_search(txt)
    \/ Busy /\ on_search_step("LANCERECHERCHE_BARRERECHERCHE_SUIVANT", "search-next")
    \/ Busy /\ on_search_step("LANCERECHERCHE_BARRERECHERCHE_PRECEDENT", "search-prev")
    \/ Busy /\ \E link \in Links : set_hover_url(link)
    \/ Busy /\ midnight
    \/ Busy /\ \E id \in Ids : remove_capture(id)

Spec == InitEmpty /\ [][Next]_vars

(***************************************************************************)
(* Reading the trace.                                                      *)
(***************************************************************************)
LinesOf(tr, tag) == SelectSeq(tr, LAMBDA l : l[1] = tag)
Lines(tag) == LinesOf(trace, tag)
CaptureIds == [k \in 1..Len(Lines("LOAD_FINISHED")) |-> Lines("LOAD_FINISHED")[k][3]]

\* A step of dump_html.
DumpStep == dumped' = dumped + 1

\* The smallest id that names no capture file.
SmallestFree(fs) ==
    CHOOSE i \in 0..(MaxId + 1) :
        /\ i \notin DOMAIN fs \/ fs[i] = None
        /\ \A j \in 0..(i - 1) : fs[j] # None

(***************************************************************************)
(* C1.  As claimed: the first load-finished event (on_load_finished and    *)
(* its dump_html callback) appends nothing to the trace, every later one   *)
(* appends a LOAD_FINISHED line.                                           *)
(***************************************************************************)
C1_FirstLoadFinishedSilent ==
    Len(Lines("LOAD_FINISHED")) = IF dumped = 0 THEN 0 ELSE dumped - 1

(***************************************************************************)
(* C1, as the code has it: it is the first load-started event that appends *)
(* nothing, every later load-started event appends a LOAD STARTED line,    *)
(* and every load-finished event whose dump_html callback has run, the     *)
(* first one too, has appended a LOAD_FINISHED line.                       *)
(***************************************************************************)
C1_FirstLoadStartedSilent ==
    /\ Len(Lines("LOAD STARTED")) = IF started = 0 THEN 0 ELSE started - 1
    /\ Len(Lines("LOAD_FINISHED")) = dumped
    /\ ignore_first_load <=> started = 0

C1_Witness ==
    /\ started = 2
    /\ dumped = 1
    /\ Len(Lines("LOAD STARTED")) = 1
    /\ Len(Lines("LOAD_FINISHED")) = 1

(***************************************************************************)
(* C2.  Every dump_html call writes the new html to the capture file,      *)
(* appends the LOAD_FINISHED line, then the RANK line of the scan of the   *)
(* previous html (none on the first call), and ends with self.last_html    *)
(* being the new html.                                                     *)
(***************************************************************************)
C2_DumpOrder ==
    [][DumpStep =>
        LET id == SmallestFree(files)
            n  == Len(trace)
        IN  /\ files'[id] # None
            /\ Len(trace') > n
            /\ trace'[n + 1] = <<"LOAD_FINISHED", TODAY, id, url_text>>
            /\ last_html = None => Len(trace') = n + 1
            /\ last_html # None =>
                 /\ Len(trace') = n + 2
                 /\ trace'[n + 2][1] = "RANK"
                 /\ trace'[n + 2] = getGoogleRanking(last_html, previous_url).line
            /\ last_html' = files'[id]
    ]_vars

(***************************************************************************)
(* C3.  dump_html writes the capture file of the smallest id that named no *)
(* file before the call, and changes no other capture file.                *)
(***************************************************************************)
C3_NoOverwrite ==
    [][DumpStep =>
        LET id == SmallestFree(files)
        IN  /\ id \in Ids
            /\ files[id] = None
            /\ files'[id] # None
            /\ \A j \in Ids \ {id} : files'[j] = files[j]
            /\ trace'[Len(trace) + 1] = <<"LOAD_FINISHED", TODAY, id, url_text>>
    ]_vars

C3_Witness ==
    /\ dumped = 1
    /\ ~removed
    /\ preexisting = {0, 2}
    /\ CaptureIds = <<1>>
    /\ files[0] = Some(ExternalDoc)
    /\ files[1] = Some(ResultsPage)
    /\ files[2] = Some(ExternalDoc)

(***************************************************************************)
(* C4.  As claimed: with no capture file removed, the capture ids of the   *)
(* dump_html calls so far are 0, 1, ..., N-1 in that order, whatever files *)
(* the output directory held at start.                                     *)
(***************************************************************************)
C4_IdsFromZero ==
    ~removed => \A k \in 1..Len(CaptureIds) : CaptureIds[k] = k - 1

(***************************************************************************)
(* C4, as the code has it: with no capture file removed, the capture ids   *)
(* of the dump_html calls so far are, in order, the smallest ids that      *)
(* named no capture file at start; they are 0, 1, ..., N-1 when the        *)
(* output directory held no capture file of the day at start.              *)
(***************************************************************************)
C4_IdsSkipExisting ==
    ~removed =>
        /\ Len(CaptureIds) = dumped
        /\ \A k \in 1..Len(CaptureIds) :
              /\ CaptureIds[k] \notin preexisting
              /\ Cardinality({j \in 0..(CaptureIds[k] - 1) : j \notin preexisting})
                     = k - 1
        /\ preexisting = {} => \A k \in 1..Len(CaptureIds) : CaptureIds[k] = k - 1

C4_Witness ==
    /\ ~removed
    /\ preexisting = {1}
    /\ CaptureIds = <<0, 2, 3>>

(***************************************************************************)
(* C5.  A call of on_set_url, on_tab_changed or on_load_status_changed     *)
(* appends one URL_CHANGED line, carrying the text it displays, when that  *)
(* text differs from the text of the last URL_CHANGED line (or there is    *)
(* none yet), and appends nothing when it displays that text again; no two *)
(* consecutive URL_CHANGED lines carry the same text.                      *)
(***************************************************************************)
UpdateStep ==
    \/ \E tab \in Tabs : on_tab_changed(tab)
    \/ \E url \in OptQUrls : on_set_url(url)
    \/ \E status \in LoadStatus : on_load_status_changed(status)

NoRepeatedUrlChanged(tr) ==
    \A k \in 1..(Len(LinesOf(tr, "URL_CHANGED")) - 1) :
        LinesOf(tr, "URL_CHANGED")[k][2] # LinesOf(tr, "URL_CHANGED")[k + 1][2]

C5_UrlChangedOnce ==
    [][ /\ NoRepeatedUrlChanged(trace')
        /\ UpdateStep =>
             LET U == Lines("URL_CHANGED") IN
             IF U = <<>> \/ url_text' # U[Len(U)][2]
             THEN trace' = Append(trace, <<"URL_CHANGED", url_text'>>)
             ELSE trace' = trace
    ]_vars

\* "a" and then "b" were logged, once each; the status change that displayed
\* "b" again logged nothing.
C5_Witness ==
    /\ trace = <<<<"START">>, <<"URL_CHANGED", <<"a">>>>, <<"URL_CHANGED", <<"b">>>>>>
    /\ _urltype = Some("warn")
    /\ _normal_url = Some(<<"b">>)

(***************************************************************************)
(* C6.  Unless the user is editing it, the address field shows the hover   *)
(* url while a link is hovered and the normal url (the empty text when     *)
(* there is none) otherwise.                                               *)
(***************************************************************************)
NormalText == IF _normal_url # None THEN Val(_normal_url) ELSE <<>>

C6_HoverDisplayed ==
    ~url_modified =>
        url_text = IF _hover_url # None THEN Val(_hover_url) ELSE NormalText

(***************************************************************************)
(* Reading a scan.  A dump_html step that scans the document d appends the *)
(* LOAD_FINISHED line and then, if the scan completes, its RANK line.      *)
(***************************************************************************)
ScanStep == DumpStep /\ last_html # None
Scanned == Val(last_html)
RankLogged ==
    /\ Len(trace') = Len(trace) + 2
    /\ trace'[Len(trace) + 2][1] = "RANK"
RankLine == trace'[Len(trace) + 2]

\* Every result heading of d has an enclosing block whose first hyperlink has
\* an address.
WellFormed(d) ==
    \A k \in 1..Len(d.headings) :
        /\ d.headings[k].div
        /\ d.headings[k].hrefs # <<>>
        /\ d.headings[k].hrefs[1] # None

\* The headings of d whose block's first hyperlink contains the text prev.
Matching(d, prev) ==
    {k \in 1..Len(d.headings) : IsSubstring(prev, Val(d.headings[k].hrefs[1]))}

(***************************************************************************)
(* C7.  When previous_url is None or the empty text, the scan of a         *)
(* document whose result blocks all have a first hyperlink logs a RANK     *)
(* line with found-rank -1.                                                *)
(***************************************************************************)
C7_EmptyFragmentNotFound ==
    [][ScanStep /\ WellFormed(Scanned) /\ previous_url \in {None, Some(<<>>)} =>
        /\ RankLogged
        /\ RankLine[2] = -1
    ]_vars

(***************************************************************************)
(* C8.  The scan of a document whose result headings each have an          *)
(* enclosing block with a first hyperlink logs a RANK line whose           *)
(* found-rank is k when the k-th heading is the only one whose first       *)
(* hyperlink contains previous_url, and -1 when there is none; its total   *)
(* is the number of headings.                                              *)
(***************************************************************************)
C8_FoundRank ==
    [][ScanStep /\ WellFormed(Scanned) =>
        /\ previous_url # None
        /\ RankLogged
        /\ \A k \in 1..Len(Scanned.headings) :
              Matching(Scanned, Val(previous_url)) = {k} => RankLine[2] = k
        /\ Matching(Scanned, Val(previous_url)) = {} => RankLine[2] = -1
        /\ RankLine[3] = Len(Scanned.headings)
    ]_vars

\* Three results, the second one linking to "a": RANK;2;SUR:;3.
C8_Witness ==
    /\ dumped = 2
    /\ files[0] = Some(Doc(<<Heading(TRUE, <<Some(<<"b">>)>>),
                             Heading(TRUE, <<Some(<<"b", "a">>), Some(<<"b">>)>>),
                             Heading(TRUE, <<Some(<<"b">>)>>)>>, None))
    /\ previous_url = Some(<<"a">>)
    /\ trace[Len(trace)] = <<"RANK", 2, 3, <<"?">>>>

(***************************************************************************)
(* C9.  As claimed: the total of the RANK line of a scan is the number of  *)
(* result headings of the scanned document.                                *)
(***************************************************************************)
C9_TotalIsHeadings ==
    [][ScanStep /\ RankLogged => RankLine[3] = Len(Scanned.headings)]_vars

(***************************************************************************)
(* C9, as the code has it: the counter is incremented for every result     *)
(* heading that has an enclosing div, whether or not it matches, and for   *)
(* no other: the total of the RANK line is the number of result headings   *)
(* with an enclosing div.                                                  *)
(***************************************************************************)
C9_TotalIsBlocks ==
    [][ScanStep /\ RankLogged =>
        RankLine[3] =
            Cardinality({k \in 1..Len(Scanned.headings) : Scanned.headings[k].div})
    ]_vars

\* Three headings, the first without an enclosing div, the last not matching:
\* RANK;1;SUR:;2.
C9_Witness ==
    /\ dumped = 2
    /\ files[0] = Some(Doc(<<Heading(FALSE, <<>>),
                             Heading(TRUE, <<Some(<<"a">>)>>),
                             Heading(TRUE, <<Some(<<"b">>)>>)>>,
                           Some(<<Cell(TRUE, TRUE, <<"1">>), Cell(TRUE, FALSE, <<"2">>),
                                  Cell(FALSE, FALSE, <<"x">>)>>)))
    /\ previous_url = Some(<<"a">>)
    /\ trace[Len(trace)] = <<"RANK", 1, 2, <<"2">>>>

(***************************************************************************)
(* C10.  The scan of a document with no result heading, or with no         *)
(* <div id="foot">, completes: it logs exactly one RANK line, with page    *)
(* label "?" when the footer is absent and found-rank -1 when there is no  *)
(* result heading.                                                         *)
(***************************************************************************)
C10_ScanCompletes ==
    [][ScanStep /\ (Scanned.headings = <<>> \/ Scanned.foot = None) =>
        /\ RankLogged
        /\ Scanned.foot = None => RankLine[4] = <<"?">>
        /\ Scanned.headings = <<>> => RankLine[2] = -1
    ]_vars

(***************************************************************************)
(* Reading an address entry.                                               *)
(***************************************************************************)
\* A step of on_press_enter.
EnterStep ==
    /\ Len(trace') = Len(trace) + 1
    /\ trace'[Len(trace')] = <<"SAISIE_BARREADRESSE", url_text>>

HasDot(text) == \E k \in 1..Len(text) : text[k] = "."
StartsWithScheme(text) ==
    Len(text) > 0 /\ text[1] \in {"http://", "https://"}

(***************************************************************************)
(* C11.  on_press_enter loads the search-query url                         *)
(* http://www.google.com/search?q=<text> for every non-empty text without  *)
(* a dot, and http://<text> for every text with a dot that does not start  *)
(* with http:// or https://.                                               *)
(***************************************************************************)
C11_EntryClassified ==
    [][EnterStep =>
        /\ (url_text # <<>> /\ ~HasDot(url_text)) =>
               loaded' = Some(SearchPrefix \o url_text)
        /\ (HasDot(url_text) /\ ~StartsWithScheme(url_text)) =>
               loaded' = Some(<<"http://">> \o url_text)
    ]_vars

(***************************************************************************)
(* C12.  As claimed: on_press_enter loads every text that starts with      *)
(* http:// or https:// unchanged, and what it loads is a text it would     *)
(* load unchanged.                                                         *)
(***************************************************************************)
C12_PrefixedUnchanged ==
    [][EnterStep =>
        /\ StartsWithScheme(url_text) => loaded' = Some(url_text)
        /\ entered_url(Val(loaded')) = Val(loaded')
    ]_vars

(***************************************************************************)
(* C12, as the code has it: on_press_enter loads unchanged every text that *)
(* starts with http:// or https:// and has a dot; what it loads for any    *)
(* text is a text it would load unchanged, so that confirming the loaded   *)
(* url again loads the same url.                                           *)
(***************************************************************************)
C12_Idempotent ==
    [][EnterStep =>
        /\ (StartsWithScheme(url_text) /\ HasDot(url_text)) =>
               loaded' = Some(url_text)
        /\ entered_url(Val(loaded')) = Val(loaded')
        /\ (loaded # None /\ url_text = Val(loaded)) => loaded' = loaded
    ]_vars

\* "a.a" was confirmed and loaded as "http://a.a"; that url was entered and
\* confirmed again, and is still what is loaded.
C12_Witness ==
    /\ Len(Lines("SAISIE_BARREADRESSE")) = 2
    /\ Lines("SAISIE_BARREADRESSE")[1][2] = <<"a", ".", "a">>
    /\ Lines("SAISIE_BARREADRESSE")[2][2] = <<"http://", "a", ".", "a">>
    /\ loaded = Some(<<"http://", "a", ".", "a">>)

(***************************************************************************)
(* C13.  As claimed: after on_load_status_changed(status) the type of the  *)
(* displayed url, self._urltype, is status when status is success,         *)
(* success_https, error or warn, and normal for any other status; after    *)
(* on_set_url or on_tab_changed it is normal.                              *)
(***************************************************************************)
SetStep ==
    \/ \E tab \in Tabs : on_tab_changed(tab)
    \/ \E url \in OptQUrls : on_set_url(url)

Outcomes == {"success", "success_https", "error", "warn"}

C13_TypeFollowsStatus ==
    [][ /\ \A status \in LoadStatus :
              on_load_status_changed(status) =>
                  _urltype' = Some(IF status \in Outcomes THEN status
                                   ELSE "normal")
        /\ SetStep => _urltype' = Some("normal")
    ]_vars

(***************************************************************************)
(* C13, as the code has it: on_load_status_changed(status) sets            *)
(* self._normal_url_type to status when status is success, success_https,  *)
(* error or warn and to normal for any other status, and self._urltype to  *)
(* the same type when a normal url is set but to normal when there is      *)
(* none; after on_set_url or on_tab_changed both are normal.               *)
(***************************************************************************)
C13_TypeOfNormalUrl ==
    [][ /\ \A status \in LoadStatus :
              on_load_status_changed(status) =>
                  LET type == IF status \in Outcomes THEN status ELSE "normal"
                  IN  /\ _normal_url_type' = type
                      /\ _urltype' = Some(IF _normal_url # None THEN type
                                          ELSE "normal")
        /\ SetStep => _normal_url_type' = "normal" /\ _urltype' = Some("normal")
    ]_vars

\* The url "a" is displayed and its load ended with success_https.
C13_Witness ==
    /\ _normal_url = Some(<<"a">>)
    /\ _normal_url_type = "success_https"
    /\ _urltype = Some("success_https")
    /\ url_text = <<"a">>

(***************************************************************************)
(* C14.  The trace only grows at its end.  add_log writes nothing while    *)
(* the logger is not started; the first line of the widget is START; a     *)
(* handler that calls add_log once appends one line, dump_html, which      *)
(* calls it for LOAD_FINISHED and again in the scan, appends one or two;   *)
(* no step changes or removes a line written before.                       *)
(***************************************************************************)
IsPrefix(s, t) == Len(s) <= Len(t) /\ SubSeq(t, 1, Len(s)) = s

OneRecordStep ==
    \/ on_press_enter
    \/ on_request_search
    \/ \E link \in Links : set_hover_url(link)
    \/ \E txt \in Searches \ {<<>>} : on_search(txt)
    \/ on_search_step("LANCERECHERCHE_BARRERECHERCHE_SUIVANT", "search-next")
    \/ on_search_step("LANCERECHERCHE_BARRERECHERCHE_PRECEDENT", "search-prev")

C14_AppendOnly ==
    [][ /\ add_log_at(0, trace, <<"LOAD STARTED">>) = trace
        /\ START_TIME # 0
        /\ trace[1] = <<"START">>
        /\ IsPrefix(trace, trace')
        /\ Len(trace') <= Len(trace) + 2
        /\ OneRecordStep => Len(trace') = Len(trace) + 1
        /\ DumpStep => Len(trace') > Len(trace)
        /\ Len(trace') = Len(trace) + 2 =>
               DumpStep /\ trace'[Len(trace')][1] = "RANK"
    ]_vars

\* Three handlers have written after START, and a second load completion
\* has added its two lines after theirs.
C14_Witness ==
    /\ Len(trace) = 6
    /\ trace[1] = <<"START">>
    /\ trace[2] = <<"URL_CHANGED", <<"a">>>>
    /\ trace[3][1] = "LOAD_FINISHED"
    /\ trace[4] = <<"LINK_HOVERED", <<"b">>>>
    /\ trace[5][1] = "LOAD_FINISHED"
    /\ trace[6][1] = "RANK"

(***************************************************************************)
(* C15.  The date in the LOAD_FINISHED line of a dump_html call, which is  *)
(* the date in the name of the capture file it writes, is the calendar day *)
(* of the call, and the first capture of a day has id 0.                   *)
(***************************************************************************)
C15_DateOfTheCall ==
    [][DumpStep =>
        LET line == trace'[Len(trace) + 1]
        IN  /\ line[1] = "LOAD_FINISHED"
            /\ line[2] = clock
            /\ (\A k \in 1..Len(Lines("LOAD_FINISHED")) :
                    Lines("LOAD_FINISHED")[k][2] # clock) => line[3] = 0
    ]_vars

(***************************************************************************)
(* C16.  After every dump_html(html) call self.last_html is html, the      *)
(* content the call has written to its capture file.                       *)
(***************************************************************************)
C16_LastHtmlIsNewest ==
    [][DumpStep =>
        /\ files'[SmallestFree(files)] # None
        /\ last_html' = files'[SmallestFree(files)]
    ]_vars

(***************************************************************************)
(* C17.  The url in the LOAD_FINISHED line of a dump_html call is the url  *)
(* of the page whose html the call writes: the url the current tab had     *)
(* when on_load_finished asked for the dump.                               *)
(***************************************************************************)
C17_UrlOfDumpedPage ==
    [][DumpStep =>
        /\ trace'[Len(trace) + 1][1] = "LOAD_FINISHED"
        /\ trace'[Len(trace) + 1][4] = Head(requested)
    ]_vars

(***************************************************************************)
(* C18.  self.previous_url, the fragment the scan looks for, is the text   *)
(* of the last URL_CHANGED line of the trace, and None while there is no   *)
(* such line; only on_set_url, on_tab_changed and on_load_status_changed   *)
(* change it.                                                              *)
(***************************************************************************)
LastUrlChanged(tr) ==
    IF LinesOf(tr, "URL_CHANGED") = <<>> THEN None
    ELSE Some(LinesOf(tr, "URL_CHANGED")[Len(LinesOf(tr, "URL_CHANGED"))][2])

C18_PreviousUrlIsLastLogged ==
    [][ /\ previous_url = LastUrlChanged(trace)
        /\ previous_url' = LastUrlChanged(trace')
        /\ previous_url' # previous_url =>
               /\ UpdateStep
               /\ previous_url' = Some(url_text')
    ]_vars

\* "a" then the empty text were logged as URL_CHANGED; a hover, an edit of
\* the address field and its confirmation followed.
C18_Witness ==
    /\ previous_url = Some(<<>>)
    /\ Len(Lines("URL_CHANGED")) = 2
    /\ Lines("URL_CHANGED")[1][2] = <<"a">>
    /\ trace[Len(trace)] = <<"SAISIE_BARREADRESSE", <<"b">>>>
    /\ Len(Lines("LINK_HOVERED")) = 1
    /\ url_text = <<"b">>

(***************************************************************************)
(* C19.  With no capture file removed, the ids of the LOAD_FINISHED lines  *)
(* increase strictly from each line to the next, and the capture files     *)
(* the widget has written are those the LOAD_FINISHED lines name, one line *)
(* for each file.                                                          *)
(***************************************************************************)
C19_IdsIncrease ==
    ~removed =>
        /\ \A k \in 1..(Len(CaptureIds) - 1) : CaptureIds[k] < CaptureIds[k + 1]
        /\ Len(CaptureIds) = dumped
        /\ {i \in Ids : files[i] # None /\ i \notin preexisting}
               = {CaptureIds[k] : k \in 1..Len(CaptureIds)}
        /\ Cardinality({i \in Ids : files[i] # None /\ i \notin preexisting})
               = Len(CaptureIds)
        /\ \A i \in preexisting : files[i] = Some(ExternalDoc)

C19_Witness ==
    /\ ~removed
    /\ preexisting = {0, 2}
    /\ CaptureIds = <<1, 3>>
    /\ files[1] # None
    /\ files[3] # None

====
